---- MODULE Spec2Model ----
(***************************************************************************)
(* A model of src/recipe_processor.py: LookupMatcher.find_match and the    *)
(* RecipeProcessor pipeline (load_excel_sheets, calculate_recipe_costs,    *)
(* calculate_energy_flags, generate_summary, save_to_csv, process).        *)
(*                                                                         *)
(* Python strings are sequences of one-character strings, so that          *)
(* str.lower, the `in` substring test and str.replace are computed.        *)
(* Python floats are records [nan, val]: NaN is [nan |-> TRUE, val |-> 0]. *)
(* Python dicts are sequences of [k, v] records in insertion order.        *)
(***************************************************************************)
EXTENDS Integers, Sequences, FiniteSets, TLC

VARIABLES
    pc,                 \* position of process(): start, loaded, costed, flagged, summarised, done, raised
    error,              \* the exception that left process(), or "none"
    dry_run,            \* self.dry_run
    excel,              \* the sheets of the Excel file on disk
    dataframes,         \* self.dataframes
    assigned,           \* the attributes that have been assigned on self
    recipe_costs,       \* self.recipe_costs
    eval_log,           \* per dish row: the substituted formula and whether eval() was called
    energies,           \* self.energies
    most_energy_flags,  \* self.most_energy_flags
    summary_df,         \* the frame process() returns
    output,             \* the rows of summary.csv, <<>> while the file is not written
    writes,             \* how many times summary.csv has been written
    key,                \* find_match: the key argument
    lookup_dict,        \* find_match: the lookup_dict argument
    matched             \* find_match: what the call returned

vars == <<pc, error, dry_run, excel, dataframes, assigned, recipe_costs, eval_log,
          energies, most_energy_flags, summary_df, output, writes,
          key, lookup_dict, matched>>

pipeline_vars == <<pc, error, dry_run, excel, dataframes, assigned, recipe_costs, eval_log,
                   energies, most_energy_flags, summary_df, output, writes>>

match_vars == <<key, lookup_dict, matched>>

-----------------------------------------------------------------------------
(* Bounds *)

MaxKeyLen == 2
MaxLookup == 2
MaxDishes == 3
MaxDishIngredientRows == 2

-----------------------------------------------------------------------------
(* Python values *)

NaN == [nan |-> TRUE, val |-> 0]

Num(n) == [nan |-> FALSE, val |-> n]

\* float.__mul__: NaN propagates
PyMul(x, y) == IF x.nan \/ y.nan THEN NaN ELSE Num(x.val * y.val)

\* an equality under which two NaN are equal
PyEq_NanEqual(x, y) == (x.nan /\ y.nan) \/ (~x.nan /\ ~y.nan /\ x.val = y.val)

\* float.__eq__: NaN equals nothing, itself included
PyEq(x, y) == ~x.nan /\ ~y.nan /\ x.val = y.val

\* float.__gt__: every comparison with NaN is False
PyGt(x, y) == ~x.nan /\ ~y.nan /\ x.val > y.val

RECURSIVE PyMaxFrom(_, _, _)
PyMaxFrom(xs, i, best) ==
    IF i > Len(xs) THEN best
    ELSE PyMaxFrom(xs, i + 1, IF PyGt(xs[i], best) THEN xs[i] ELSE best)

\* a maximum that stops at the first item
PyMax_First(xs) == xs[1]

\* builtin max over a non-empty sequence: the first item, replaced by each later
\* item that compares greater
PyMax(xs) == PyMaxFrom(xs, 2, xs[1])

-----------------------------------------------------------------------------
(* Python dicts, in insertion order *)

DictHas(d, k) == \E i \in 1..Len(d) : d[i].k = k

DictGet(d, k) == d[CHOOSE i \in 1..Len(d) : d[i].k = k].v

DictGetOr(d, k, dflt) == IF DictHas(d, k) THEN DictGet(d, k) ELSE dflt

\* d[k] = v: an existing key keeps its position, a new key goes last
DictSet(d, k, v) ==
    IF DictHas(d, k)
    THEN [i \in 1..Len(d) |-> IF d[i].k = k THEN [k |-> k, v |-> v] ELSE d[i]]
    ELSE Append(d, [k |-> k, v |-> v])

DictValues(d) == [i \in 1..Len(d) |-> d[i].v]

-----------------------------------------------------------------------------
(* Python strings *)

Letters == {"a", "A", "b"}

LowerChar(c) == IF c = "A" THEN "a" ELSE IF c = "B" THEN "b" ELSE c

\* str.lower
Lower(s) == [i \in 1..Len(s) |-> LowerChar(s[i])]

\* a in b, for strings
IsSubstring(a, b) ==
    \E i \in 0..(Len(b) - Len(a)) : SubSeq(b, i + 1, i + Len(a)) = a

StringsUpTo(n) == UNION {[1..m -> Letters] : m \in 0..n}

RECURSIVE Interleave(_, _)
\* str.replace with an empty pattern: new goes before every character and at the end
Interleave(s, new) ==
    IF Len(s) = 0 THEN new ELSE new \o <<Head(s)>> \o Interleave(Tail(s), new)

RECURSIVE ReplaceScan(_, _, _)
ReplaceScan(s, old, new) ==
    IF Len(s) < Len(old) THEN s
    ELSE IF SubSeq(s, 1, Len(old)) = old
         THEN new \o ReplaceScan(SubSeq(s, Len(old) + 1, Len(s)), old, new)
         ELSE <<Head(s)>> \o ReplaceScan(Tail(s), old, new)

\* str.replace(old, new): every non-overlapping occurrence, leftmost first
Replace(s, old, new) ==
    IF Len(old) = 0 THEN Interleave(s, new) ELSE ReplaceScan(s, old, new)

Digits == <<"0", "1", "2", "3", "4", "5", "6", "7", "8", "9">>

IsDigit(c) == \E i \in 1..Len(Digits) : Digits[i] = c

DigitVal(c) == (CHOOSE i \in 1..Len(Digits) : Digits[i] = c) - 1

RECURSIVE IntToStr(_)
\* str(n) of a non-negative int
IntToStr(n) ==
    IF n < Len(Digits) THEN <<Digits[n + 1]>>
    ELSE IntToStr(n \div Len(Digits)) \o <<Digits[(n % Len(Digits)) + 1]>>

NanStr == <<"n", "a", "n">>

\* str(cost)
PyStr(x) == IF x.nan THEN NanStr ELSE IntToStr(x.val)

-----------------------------------------------------------------------------
(* eval() of a substituted formula.  The formulas of the model are written   *)
(* with letters, decimal digits and "+": a name raises NameError, a literal  *)
(* with a leading zero or a trailing "+" raises SyntaxError, "+" is binary   *)
(* or unary.                                                                 *)

EvalError == [ok |-> FALSE, val |-> 0]

EvalOk(n) == [ok |-> TRUE, val |-> n]

RECURSIVE LiteralValue(_, _)
LiteralValue(s, acc) ==
    IF Len(s) = 0 THEN acc
    ELSE LiteralValue(Tail(s), acc * Len(Digits) + DigitVal(Head(s)))

\* an integer literal: no leading zero, unless every digit is zero
LiteralOk(s) ==
    \/ s[1] # "0"
    \/ \A i \in 1..Len(s) : s[i] = "0"

RECURSIVE EvalSum(_, _, _)
\* s: what is left to read; lit: the digits of the literal being read; acc: the sum
EvalSum(s, lit, acc) ==
    IF Len(s) = 0
    THEN IF Len(lit) > 0 /\ LiteralOk(lit) THEN EvalOk(acc + LiteralValue(lit, 0))
         ELSE EvalError
    ELSE IF Head(s) = "+"
         THEN IF Len(lit) = 0 THEN EvalSum(Tail(s), <<>>, acc)
              ELSE IF LiteralOk(lit)
                   THEN EvalSum(Tail(s), <<>>, acc + LiteralValue(lit, 0))
                   ELSE EvalError
         ELSE EvalSum(Tail(s), Append(lit, Head(s)), acc)

PyEval(s) ==
    IF \A i \in 1..Len(s) : IsDigit(s[i]) \/ s[i] = "+"
    THEN EvalSum(s, <<>>, 0)
    ELSE EvalError

-----------------------------------------------------------------------------
(* LookupMatcher.find_match *)

None == [found |-> FALSE, key |-> <<>>]

Found(k) == [found |-> TRUE, key |-> k]

RECURSIVE find_match_scan_Last(_, _, _)
\* a scan that keeps looking and returns the last hit
find_match_scan_Last(key_lower, lookup, i) ==
    IF i > Len(lookup) THEN None
    ELSE LET later == find_match_scan_Last(key_lower, lookup, i + 1)
         IN  IF later.found THEN later
             ELSE IF \/ IsSubstring(key_lower, Lower(lookup[i].k))
                     \/ IsSubstring(Lower(lookup[i].k), key_lower)
                  THEN Found(lookup[i].k)
                  ELSE None

RECURSIVE find_match_scan(_, _, _)
find_match_scan(key_lower, lookup, i) ==
    IF i > Len(lookup) THEN None
    ELSE IF \/ IsSubstring(key_lower, Lower(lookup[i].k))
            \/ IsSubstring(Lower(lookup[i].k), key_lower)
         THEN Found(lookup[i].k)
         ELSE find_match_scan(key_lower, lookup, i + 1)

\* find_match without the direct lookup
find_match_NoDirect(k, lookup) == find_match_scan(Lower(k), lookup, 1)

find_match(k, lookup) ==
    IF DictHas(lookup, k) THEN Found(k)
    ELSE find_match_scan(Lower(k), lookup, 1)

\* The lookup tables of at most n entries: distinct keys, in every order
LookupTables(n) ==
    {t \in UNION {[1..m -> [k : StringsUpTo(MaxKeyLen), v : {1}]] : m \in 0..n} :
        \A i, j \in 1..Len(t) : t[i].k = t[j].k => i = j}

NotCalled == [found |-> FALSE, key |-> <<"-">>]

InitMatch ==
    /\ key \in StringsUpTo(MaxKeyLen)
    /\ lookup_dict \in LookupTables(MaxLookup)
    /\ matched = NotCalled
    /\ pc = "start" /\ error = "none" /\ dry_run = FALSE
    /\ excel = <<>> /\ dataframes = <<>> /\ assigned = {}
    /\ recipe_costs = <<>> /\ eval_log = <<>> /\ energies = <<>>
    /\ most_energy_flags = <<>> /\ summary_df = <<>> /\ output = <<>> /\ writes = 0

FindMatch ==
    /\ matched = NotCalled
    /\ matched' = find_match(key, lookup_dict)
    /\ UNCHANGED <<key, lookup_dict>>
    /\ UNCHANGED pipeline_vars

NextMatch == FindMatch

SpecMatch == InitMatch /\ [][NextMatch]_vars

-----------------------------------------------------------------------------
(* RecipeProcessor.calculate_recipe_costs *)

RECURSIVE cost_lookup_from(_, _, _)
\* dict(zip(ingredient_cost_df['ingredient'], ingredient_cost_df['cost']))
cost_lookup_from(rows, i, acc) ==
    IF i > Len(rows) THEN acc
    ELSE cost_lookup_from(rows, i + 1, DictSet(acc, rows[i].ingredient, rows[i].cost))

\* the body of the loop over dish_ingredient_df: one row into dish_ingredients
dish_ingredients_add(acc, row, cost_lookup) ==
    LET have == DictGetOr(acc, row.dish, <<>>)
        cost == IF DictHas(cost_lookup, row.ingredient)
                THEN DictGet(cost_lookup, row.ingredient)
                ELSE NaN
    IN  DictSet(acc, row.dish, DictSet(have, row.ingredient_map, cost))

RECURSIVE dish_ingredients_from(_, _, _, _)
dish_ingredients_from(rows, i, cost_lookup, acc) ==
    IF i > Len(rows) THEN acc
    ELSE dish_ingredients_from(rows, i + 1, cost_lookup,
                               dish_ingredients_add(acc, rows[i], cost_lookup))

dish_ingredients_of(frames) ==
    dish_ingredients_from(frames.dish_ingredient, 1,
                          cost_lookup_from(frames.ingredient_cost, 1, <<>>), <<>>)

RECURSIVE substitute_Reversed(_, _, _)
\* a substitution that takes the variables last-inserted first
substitute_Reversed(formula_eval, ingredients, i) ==
    IF i > Len(ingredients) THEN formula_eval
    ELSE Replace(substitute_Reversed(formula_eval, ingredients, i + 1),
                 ingredients[i].k, PyStr(ingredients[i].v))

RECURSIVE substitute(_, _, _)
\* for var, cost in ingredients.items(): formula_eval = formula_eval.replace(var, str(cost))
substitute(formula_eval, ingredients, i) ==
    IF i > Len(ingredients) THEN formula_eval
    ELSE substitute(Replace(formula_eval, ingredients[i].k, PyStr(ingredients[i].v)),
                    ingredients, i + 1)

\* a loop body without the test for 'nan' in the substituted formula
dish_cost_NoNanCheck(row, dish_ingredients) ==
    LET ingredients == DictGetOr(dish_ingredients, row.dish, <<>>)
        formula_eval == substitute(row.recipe_cost, ingredients, 1)
        value == PyEval(formula_eval)
    IN  [dish |-> row.dish,
         formula_eval |-> formula_eval,
         evaluated |-> TRUE,
         cost |-> IF ~value.ok THEN NaN ELSE Num(value.val)]

\* the body of the loop over dish_df: the cost of one dish row and what was evaluated
dish_cost(row, dish_ingredients) ==
    LET ingredients == DictGetOr(dish_ingredients, row.dish, <<>>)
        formula_eval == substitute(row.recipe_cost, ingredients, 1)
        has_nan == IsSubstring(NanStr, formula_eval)
        value == PyEval(formula_eval)
    IN  [dish |-> row.dish,
         formula_eval |-> formula_eval,
         evaluated |-> ~has_nan,
         cost |-> IF has_nan \/ ~value.ok THEN NaN ELSE Num(value.val)]

RECURSIVE recipe_costs_from(_, _, _, _)
recipe_costs_from(rows, i, dish_ingredients, acc) ==
    IF i > Len(rows) THEN acc
    ELSE LET r == dish_cost(rows[i], dish_ingredients)
         IN  recipe_costs_from(rows, i + 1, dish_ingredients, DictSet(acc, r.dish, r.cost))

CalculateRecipeCosts ==
    /\ pc = "loaded"
    /\ LET dish_ingredients == dish_ingredients_of(dataframes)
       IN  /\ recipe_costs' = recipe_costs_from(dataframes.dish, 1, dish_ingredients, <<>>)
           /\ eval_log' = [i \in 1..Len(dataframes.dish) |->
                              dish_cost(dataframes.dish[i], dish_ingredients)]
    /\ assigned' = assigned \cup {"recipe_costs"}
    /\ pc' = "costed"
    /\ UNCHANGED <<error, dry_run, excel, dataframes, energies, most_energy_flags,
                   summary_df, output, writes>>
    /\ UNCHANGED match_vars

-----------------------------------------------------------------------------
(* The inputs of the cost specification *)

Dishes == <<"d1", "d2", "d3", "d4", "d5">>

IngredientCostSheet ==
    << [ingredient |-> "flour", cost |-> Num(1)],
       [ingredient |-> "sugar", cost |-> Num(2)] >>

\* "salt" has no row in ingredient_cost
Ingredients == {"flour", "sugar", "salt"}

VariableNames == { <<"A">>, <<"A", "A">> }

CostFormulas ==
    { <<"A", "A", "+", "A">>,
      <<"A", "+", "1">>,
      <<"A">>,
      <<"1", "+", "1">>,
      <<"1", "+">>,
      <<"0", "A">>,
      <<"n", "a", "n">> }

SeqsUpTo(S, n) == UNION {[1..m -> S] : m \in 0..n}

CostDishRows ==
    [dish : {Dishes[1], Dishes[2]}, recipe_cost : CostFormulas,
     temperature : {<<"a">>}, duration : {"long"}]

DishIngredientRows ==
    [dish : {Dishes[1], Dishes[2]}, ingredient : Ingredients, ingredient_map : VariableNames]

MaxCostDishes == 1

InitCost ==
    /\ excel \in [dish : SeqsUpTo(CostDishRows, MaxCostDishes),
                  dish_ingredient : SeqsUpTo(DishIngredientRows, MaxDishIngredientRows),
                  ingredient_cost : {IngredientCostSheet}]
    /\ dataframes = excel
    /\ pc = "loaded" /\ error = "none" /\ dry_run = FALSE
    /\ assigned = {"dataframes"}
    /\ recipe_costs = <<>> /\ eval_log = <<>> /\ energies = <<>>
    /\ most_energy_flags = <<>> /\ summary_df = <<>> /\ output = <<>> /\ writes = 0
    /\ key = <<>> /\ lookup_dict = <<>> /\ matched = NotCalled

NextCost == CalculateRecipeCosts

SpecCost == InitCost /\ [][NextCost]_vars

-----------------------------------------------------------------------------
(* The lookup tables of lookups.py, as RecipeProcessor.__init__ takes them *)

temperature_lookup ==
    << [k |-> <<"a">>, v |-> Num(20)],
       [k |-> <<"b">>, v |-> Num(10)] >>

duration_lookup == << [k |-> "long", v |-> Num(2)] >>

\* RecipeProcessor.get_temperature: an empty matched key is falsy
get_temperature(temp_key) ==
    LET matched_key == find_match(temp_key, temperature_lookup)
    IN  IF matched_key.found /\ Len(matched_key.key) > 0
        THEN DictGet(temperature_lookup, matched_key.key)
        ELSE NaN

\* RecipeProcessor.get_duration_lookup: KeyError becomes NaN
get_duration_lookup(duration_key) ==
    IF DictHas(duration_lookup, duration_key)
    THEN DictGet(duration_lookup, duration_key)
    ELSE NaN

-----------------------------------------------------------------------------
(* RecipeProcessor.load_excel_sheets *)

LoadExcelSheets ==
    /\ pc = "start"
    /\ \/ /\ dataframes' = excel
          /\ assigned' = assigned \cup {"dataframes"}
          /\ pc' = "loaded"
          /\ UNCHANGED error
       \/ \* pd.ExcelFile or pd.read_excel raises: logged and re-raised
          /\ pc' = "raised"
          /\ error' = "IOError"
          /\ UNCHANGED <<dataframes, assigned>>
    /\ UNCHANGED <<dry_run, excel, recipe_costs, eval_log, energies, most_energy_flags,
                   summary_df, output, writes>>
    /\ UNCHANGED match_vars

-----------------------------------------------------------------------------
(* RecipeProcessor.calculate_energy_flags *)

dish_energy(row) == PyMul(get_temperature(row.temperature), get_duration_lookup(row.duration))

RECURSIVE energies_from(_, _, _)
energies_from(rows, i, acc) ==
    IF i > Len(rows) THEN acc
    ELSE energies_from(rows, i + 1, DictSet(acc, rows[i].dish, dish_energy(rows[i])))

\* {dish: (energy == max_energy) for dish, energy in energies.items()}
flags_of(es, max_energy) ==
    [i \in 1..Len(es) |-> [k |-> es[i].k, v |-> PyEq(es[i].v, max_energy)]]

CalculateEnergyFlags ==
    /\ pc = "costed"
    /\ LET es == energies_from(dataframes.dish, 1, <<>>)
       IN  IF Len(es) = 0
           THEN \* max() of an empty sequence raises ValueError
                /\ pc' = "raised"
                /\ error' = "ValueError"
                /\ UNCHANGED <<energies, most_energy_flags, assigned>>
           ELSE /\ most_energy_flags' = flags_of(es, PyMax(DictValues(es)))
                /\ energies' = es
                /\ assigned' = assigned \cup {"most_energy_flags", "energies"}
                /\ pc' = "flagged"
                /\ UNCHANGED error
    /\ UNCHANGED <<dry_run, excel, dataframes, recipe_costs, eval_log, summary_df,
                   output, writes>>
    /\ UNCHANGED match_vars

-----------------------------------------------------------------------------
(* RecipeProcessor.generate_summary *)

summary_row(row, costs, flags) ==
    [dish |-> row.dish,
     recipe_cash_cost |-> DictGetOr(costs, row.dish, NaN),
     temp_degC |-> get_temperature(row.temperature),
     time_mins |-> get_duration_lookup(row.duration),
     most_energy |-> DictGetOr(flags, row.dish, FALSE)]

\* a summary that drops the rows whose cost is undefined
generate_summary_DropUndefined(rows, costs, flags) ==
    SelectSeq([i \in 1..Len(rows) |-> summary_row(rows[i], costs, flags)],
              LAMBDA r : ~r.recipe_cash_cost.nan)

generate_summary(rows, costs, flags) ==
    [i \in 1..Len(rows) |-> summary_row(rows[i], costs, flags)]

GenerateSummary ==
    /\ pc = "flagged"
    /\ summary_df' = generate_summary(dataframes.dish, recipe_costs, most_energy_flags)
    /\ pc' = "summarised"
    /\ UNCHANGED <<error, dry_run, excel, dataframes, assigned, recipe_costs, eval_log,
                   energies, most_energy_flags, output, writes>>
    /\ UNCHANGED match_vars

-----------------------------------------------------------------------------
(* RecipeProcessor.save_to_csv *)

\* Series.round(2): the costs of the model are whole numbers, which round(2) keeps
round2(x) == x

csv_rows(frame) ==
    [i \in 1..Len(frame) |->
        [frame[i] EXCEPT !.recipe_cash_cost = round2(frame[i].recipe_cash_cost)]]

\* a save_to_csv that never returns early
save_skipped_Never(dry) == FALSE

\* whether save_to_csv returns before it builds or writes anything
save_skipped(dry) == dry

SaveToCsv ==
    /\ pc = "summarised"
    /\ IF save_skipped(dry_run)
       THEN /\ pc' = "done"
            /\ UNCHANGED <<error, output, writes>>
       ELSE LET frame == generate_summary(dataframes.dish, recipe_costs, most_energy_flags)
            IN  IF Len(frame) = 0
                THEN \* a frame built from no rows has no recipe_cash_cost column
                     /\ pc' = "raised"
                     /\ error' = "KeyError"
                     /\ UNCHANGED <<output, writes>>
                ELSE \/ /\ output' = csv_rows(frame)
                        /\ writes' = writes + 1
                        /\ pc' = "done"
                        /\ UNCHANGED error
                     \/ \* to_csv raises: logged and re-raised
                        /\ pc' = "raised"
                        /\ error' = "IOError"
                        /\ UNCHANGED <<output, writes>>
    /\ UNCHANGED <<dry_run, excel, dataframes, assigned, recipe_costs, eval_log,
                   energies, most_energy_flags, summary_df>>
    /\ UNCHANGED match_vars

-----------------------------------------------------------------------------
(* RecipeProcessor.process, over every workbook of the bounds *)

DishBodies ==
    [recipe_cost : { <<"1", "+", "1">>, <<"A">> },
     temperature : { <<"a">>, <<"B">>, <<"c">> },
     duration : {"long", "never"}]

\* row i names dish i; with repeat, the last row names the first dish again
DishSheet(bodies, repeat) ==
    [i \in 1..Len(bodies) |->
        [dish |-> IF repeat /\ i = Len(bodies) THEN Dishes[1] ELSE Dishes[i],
         recipe_cost |-> bodies[i].recipe_cost,
         temperature |-> bodies[i].temperature,
         duration |-> bodies[i].duration]]

DishSheets ==
    {DishSheet(b, r) : b \in SeqsUpTo(DishBodies, MaxDishes), r \in BOOLEAN}

Init ==
    /\ dry_run \in BOOLEAN
    /\ excel \in [dish : DishSheets,
                  dish_ingredient : { << [dish |-> Dishes[1], ingredient |-> "salt",
                                          ingredient_map |-> <<"A">>] >> },
                  ingredient_cost : {IngredientCostSheet}]
    /\ dataframes = <<>>
    /\ pc = "start" /\ error = "none"
    /\ assigned = {}
    /\ recipe_costs = <<>> /\ eval_log = <<>> /\ energies = <<>>
    /\ most_energy_flags = <<>> /\ summary_df = <<>> /\ output = <<>> /\ writes = 0
    /\ key = <<>> /\ lookup_dict = <<>> /\ matched = NotCalled

Next ==
    \/ LoadExcelSheets
    \/ CalculateRecipeCosts
    \/ CalculateEnergyFlags
    \/ GenerateSummary
    \/ SaveToCsv

Spec == Init /\ [][Next]_vars

-----------------------------------------------------------------------------
(* Claims about LookupMatcher.find_match, checked under SpecMatch *)

\* a occurs in b at some offset
Occurs(a, b) ==
    \E off \in 0..(Len(b) - Len(a)) : \A j \in 1..Len(a) : b[off + j] = a[j]

\* the substring condition between a key and a lookup key, both lowercased
MatchCondition(k, lookup_key) ==
    \/ Occurs(Lower(k), Lower(lookup_key))
    \/ Occurs(Lower(lookup_key), Lower(k))

Hits == {i \in 1..Len(lookup_dict) : MatchCondition(key, lookup_dict[i].k)}

KeyIsVerbatim == \E i \in 1..Len(lookup_dict) : lookup_dict[i].k = key

\* C4: for a key that is not verbatim a lookup key, find_match returns the first
\* lookup key in iteration order that satisfies the substring condition, and None
\* exactly when no lookup key satisfies it
C4_FirstSubstringHit ==
    (matched # NotCalled /\ ~KeyIsVerbatim) =>
        IF Hits = {}
        THEN matched = None
        ELSE /\ matched.found
             /\ \E i \in Hits :
                   /\ \A j \in Hits : i <= j
                   /\ matched.key = lookup_dict[i].k

\* two lookup keys satisfy the condition and the earlier one was returned
C4_Witness ==
    /\ matched # NotCalled
    /\ ~KeyIsVerbatim
    /\ Hits = {1, 2}
    /\ matched = Found(lookup_dict[1].k)

\* C5: a key present verbatim in the lookup table is returned as it is, even when
\* an earlier lookup key satisfies the substring condition
C5_ExactMatchWins ==
    (matched # NotCalled /\ KeyIsVerbatim) => matched = Found(key)

\* the verbatim key is second and the first lookup key satisfies the condition
C5_Witness ==
    /\ matched = Found(key)
    /\ Len(lookup_dict) = 2
    /\ lookup_dict[2].k = key
    /\ 1 \in Hits

-----------------------------------------------------------------------------
(* Claims about the pipeline, checked under Spec *)

FlagsComputed == "most_energy_flags" \in assigned

SummaryReturned == pc \in {"summarised", "done"}

UniqueDishIds ==
    \A i, j \in 1..Len(dataframes.dish) :
        dataframes.dish[i].dish = dataframes.dish[j].dish => i = j

\* the dish row has a temperature key that nothing in temperature_lookup matches,
\* or a duration key that is not in duration_lookup
UndefinedEnergyRow(row) ==
    \/ \A i \in 1..Len(temperature_lookup) :
          /\ temperature_lookup[i].k # row.temperature
          /\ ~MatchCondition(row.temperature, temperature_lookup[i].k)
    \/ \A i \in 1..Len(duration_lookup) : duration_lookup[i].k # row.duration

\* C1: with unique dish ids and at least one defined energy, a dish is flagged
\* exactly when its energy is defined and is the maximum of the defined energies,
\* wherever the undefined energies stand in the table
C1_FlagIsDefinedMaximum ==
    (FlagsComputed /\ UniqueDishIds /\ \E i \in 1..Len(energies) : ~energies[i].v.nan) =>
        \A i \in 1..Len(energies) :
            DictGet(most_energy_flags, energies[i].k) <=>
                /\ ~energies[i].v.nan
                /\ \A j \in 1..Len(energies) :
                      ~energies[j].v.nan => energies[i].v.val >= energies[j].v.val

\* C3: after a successful load, no content of the sheets makes process() raise:
\* only a load or IO failure ends the run with an exception
C3_OnlyIOAborts == pc = "raised" => error = "IOError"

\* C6: on a non-empty dish table in which every energy is undefined, no dish is
\* flagged most_energy
C6_AllUndefinedNoFlag ==
    (/\ FlagsComputed
     /\ Len(dataframes.dish) > 0
     /\ \A i \in 1..Len(dataframes.dish) : UndefinedEnergyRow(dataframes.dish[i])) =>
        /\ \A i \in 1..Len(energies) : energies[i].v.nan
        /\ \A i \in 1..Len(most_energy_flags) : ~most_energy_flags[i].v

\* the flags of two dishes, both of undefined energy, have been computed
C6_Witness ==
    /\ pc = "flagged"
    /\ Len(dataframes.dish) >= 2
    /\ UniqueDishIds
    /\ \A i \in 1..Len(dataframes.dish) : UndefinedEnergyRow(dataframes.dish[i])
    /\ Len(most_energy_flags) = Len(dataframes.dish)

\* C7: a dry run never writes the output; a completed non-dry run has written it
\* exactly once, and a write happens only after recipe costs and energy flags
\* have been computed
C7_DryRunWritesNothing ==
    /\ dry_run => (writes = 0 /\ output = <<>>)
    /\ (~dry_run /\ pc = "done") => (writes = 1 /\ output # <<>>)
    /\ writes > 0 => {"recipe_costs", "most_energy_flags"} \subseteq assigned
    /\ writes <= 1

\* a dry run over a non-empty dish table has run to its end
C7_Witness ==
    /\ dry_run
    /\ pc = "done"
    /\ Len(summary_df) > 0
    /\ writes = 0

\* C8: the summary has one row per row of the dish table, in the same order, and a
\* dish without a computed cost carries the undefined marker, not a zero
C8_OneRowPerDish ==
    SummaryReturned =>
        /\ Len(summary_df) = Len(dataframes.dish)
        /\ \A i \in 1..Len(dataframes.dish) :
              /\ summary_df[i].dish = dataframes.dish[i].dish
              /\ (\/ ~DictHas(recipe_costs, dataframes.dish[i].dish)
                  \/ DictGet(recipe_costs, dataframes.dish[i].dish).nan) =>
                      /\ summary_df[i].recipe_cash_cost = NaN
                      /\ summary_df[i].recipe_cash_cost # Num(0)

\* the summary of a table whose first row is undefined in cost, temperature and
\* duration and whose second row is defined in all three
C8_Witness ==
    /\ pc = "summarised"
    /\ Len(summary_df) >= 2
    /\ summary_df[1].recipe_cash_cost.nan
    /\ summary_df[1].temp_degC.nan
    /\ summary_df[1].time_mins.nan
    /\ ~summary_df[2].recipe_cash_cost.nan
    /\ ~summary_df[2].temp_degC.nan
    /\ ~summary_df[2].time_mins.nan

RowDefined(r) == ~r.temp_degC.nan /\ ~r.time_mins.nan

RowProduct(r) == r.temp_degC.val * r.time_mins.val

\* C10: with unique dish ids, a summary row flagged most_energy has a defined
\* temperature and duration, and their product is at least that of every row in
\* which both are defined
C10_FlaggedRowIsMaximal ==
    (SummaryReturned /\ UniqueDishIds) =>
        \A i \in 1..Len(summary_df) :
            summary_df[i].most_energy =>
                /\ RowDefined(summary_df[i])
                /\ \A j \in 1..Len(summary_df) :
                      RowDefined(summary_df[j]) =>
                          RowProduct(summary_df[i]) >= RowProduct(summary_df[j])

\* a flagged row stands after a defined row of smaller product and before an
\* undefined row
C10_Witness ==
    /\ pc = "summarised"
    /\ UniqueDishIds
    /\ Len(summary_df) = 3
    /\ RowDefined(summary_df[1])
    /\ summary_df[2].most_energy
    /\ RowProduct(summary_df[1]) < RowProduct(summary_df[2])
    /\ ~RowDefined(summary_df[3])

-----------------------------------------------------------------------------
(* Claims about calculate_recipe_costs, checked under SpecCost *)

CostsComputed == pc = "costed"

DishIngredientSheet == dataframes.dish_ingredient

HasCost(ingredient) ==
    \E c \in 1..Len(dataframes.ingredient_cost) :
        dataframes.ingredient_cost[c].ingredient = ingredient

\* the rows of dish_ingredient that map variable v for dish d
RowsOf(d, v) ==
    {r \in 1..Len(DishIngredientSheet) :
        DishIngredientSheet[r].dish = d /\ DishIngredientSheet[r].ingredient_map = v}

VariablesOf(d) == {v \in VariableNames : RowsOf(d, v) # {}}

FirstRow(d, v) == CHOOSE r \in RowsOf(d, v) : \A q \in RowsOf(d, v) : r <= q

LastRow(d, v) == CHOOSE r \in RowsOf(d, v) : \A q \in RowsOf(d, v) : r >= q

\* the cost the mapping of dish d holds for v: that of the last row that maps it
CostOf(d, v) ==
    LET ingredient == DishIngredientSheet[LastRow(d, v)].ingredient
    IN  IF HasCost(ingredient)
        THEN dataframes.ingredient_cost[
                 CHOOSE c \in 1..Len(dataframes.ingredient_cost) :
                     dataframes.ingredient_cost[c].ingredient = ingredient].cost
        ELSE NaN

\* the variables of dish d in the order of the rows that first map them
MappingOf(d) ==
    [n \in 1..Cardinality(VariablesOf(d)) |->
        LET v == CHOOSE w \in VariablesOf(d) :
                     Cardinality({u \in VariablesOf(d) : FirstRow(d, u) < FirstRow(d, w)}) = n - 1
        IN  [k |-> v, v |-> CostOf(d, v)]]

RECURSIVE Chain(_, _, _)
\* the formula after the first n replacements, each made on the result of the one before
Chain(formula, mapping, n) ==
    IF n = 0 THEN formula
    ELSE Replace(Chain(formula, mapping, n - 1), mapping[n].k, PyStr(mapping[n].v))

\* the last row of the dish table that names the dish of row i
IsLastRowOfDish(i) ==
    \A j \in 1..Len(dataframes.dish) :
        dataframes.dish[j].dish = dataframes.dish[i].dish => j <= i

\* the cost of row i is undefined and eval() was not called for it
UndefinedUnevaluated(i) ==
    /\ eval_log[i].cost = NaN
    /\ ~eval_log[i].evaluated
    /\ IsLastRowOfDish(i) => DictGet(recipe_costs, dataframes.dish[i].dish) = NaN

\* C2 as stated: a dish whose mapping holds a variable of undefined cost has an
\* undefined recipe cost and its formula is not evaluated, whether or not the
\* variable's name occurs in the formula
C2_AnyUndefinedVariable ==
    CostsComputed =>
        \A i \in 1..Len(dataframes.dish) :
            (\E v \in VariablesOf(dataframes.dish[i].dish) :
                 CostOf(dataframes.dish[i].dish, v) = NaN)
                => UndefinedUnevaluated(i)

\* a variable of undefined cost whose name occurs in the formula as it stands when
\* the variable's turn comes
UndefinedVariableUsed(i) ==
    LET mapping == MappingOf(dataframes.dish[i].dish)
    IN  \E n \in 1..Len(mapping) :
            /\ mapping[n].v = NaN
            /\ Occurs(mapping[n].k, Chain(dataframes.dish[i].recipe_cost, mapping, n - 1))

\* C2 as amended: the cost is undefined and the formula is not evaluated when a
\* variable of undefined cost occurs in the formula at its turn; when none does
\* and the formula as written does not hold the text nan, the formula is evaluated
C2_UndefinedVariableUsed ==
    CostsComputed =>
        \A i \in 1..Len(dataframes.dish) :
            /\ UndefinedVariableUsed(i) => UndefinedUnevaluated(i)
            /\ (~UndefinedVariableUsed(i) /\ ~Occurs(NanStr, dataframes.dish[i].recipe_cost))
                   => eval_log[i].evaluated

\* a dish with two variables, the second of undefined cost and substituted
C2_Witness ==
    /\ CostsComputed
    /\ \E i \in 1..Len(dataframes.dish) :
          /\ Len(MappingOf(dataframes.dish[i].dish)) = 2
          /\ MappingOf(dataframes.dish[i].dish)[1].v # NaN
          /\ MappingOf(dataframes.dish[i].dish)[2].v = NaN
          /\ UndefinedVariableUsed(i)
          /\ UndefinedUnevaluated(i)

FormulaAAplusA == <<"A", "A", "+", "A">>

\* C9: the evaluated string is the chain of replace-all calls in the order the
\* variables were first mapped, each on the result of the one before: "AA+A" gives
\* "11+1" = 12 under A=1 then AA=2, and "2+1" = 3 under AA=2 then A=1
C9_SubstitutionInMappingOrder ==
    CostsComputed =>
        \A i \in 1..Len(dataframes.dish) :
            LET mapping == MappingOf(dataframes.dish[i].dish)
            IN  /\ eval_log[i].formula_eval =
                       Chain(dataframes.dish[i].recipe_cost, mapping, Len(mapping))
                /\ (/\ dataframes.dish[i].recipe_cost = FormulaAAplusA
                    /\ mapping = << [k |-> <<"A">>, v |-> Num(1)],
                                    [k |-> <<"A", "A">>, v |-> Num(2)] >>)
                       => /\ eval_log[i].formula_eval = <<"1", "1", "+", "1">>
                          /\ eval_log[i].cost = Num(12)
                /\ (/\ dataframes.dish[i].recipe_cost = FormulaAAplusA
                    /\ mapping = << [k |-> <<"A", "A">>, v |-> Num(2)],
                                    [k |-> <<"A">>, v |-> Num(1)] >>)
                       => /\ eval_log[i].formula_eval = <<"2", "+", "1">>
                          /\ eval_log[i].cost = Num(3)

\* "AA+A" has been evaluated as "11+1" = 12
C9_Witness ==
    /\ CostsComputed
    /\ \E i \in 1..Len(dataframes.dish) :
          /\ dataframes.dish[i].recipe_cost = FormulaAAplusA
          /\ eval_log[i].formula_eval = <<"1", "1", "+", "1">>
          /\ eval_log[i].evaluated
          /\ DictGet(recipe_costs, dataframes.dish[i].dish) = Num(12)

====
